---- MODULE Spec2Model ----
(***************************************************************************)
(* Model of crust-order-status (src/index.js): the line parser, the status *)
(* classifier, the retry wrapper and the sequential per-line orchestrator. *)
(* A text line is a sequence of one-character strings.                     *)
(***************************************************************************)
EXTENDS Integers, Sequences, FiniteSets, TLC

(***************************************************************************)
(* Bounds of the model.                                                    *)
(***************************************************************************)
\* longest raw line given to parseLine in SpecParse
MaxLineLen == 7

\* most input lines of a run in Spec
MaxLines == 2

(***************************************************************************)
(* Characters.                                                             *)
(***************************************************************************)
Digits == {"0", "1", "2", "3", "4", "5", "6", "7", "8", "9"}

Letters ==
  {"a", "b", "c", "d", "e", "f", "g", "h", "i", "j", "k", "l", "m",
   "n", "o", "p", "q", "r", "s", "t", "u", "v", "w", "x", "y", "z",
   "A", "B", "C", "D", "E", "F", "G", "H", "I", "J", "K", "L", "M",
   "N", "O", "P", "Q", "R", "S", "T", "U", "V", "W", "X", "Y", "Z"}

\* /\d/.test(c)
IsDigit(c) == c \in Digits

\* /[A-Za-z0-9]/.test(c)
IsAlnum(c) == c \in Letters \cup Digits

\* c === ' ' || c === '\t'
IsSep(c) == c = " " \/ c = "\t"

\* the characters String.prototype.trim removes (those the model's lines use)
IsTrimWs(c) == c \in {" ", "\t", "\n", "\r", "\f"}

\* the characters the model's raw lines are made of
Alphabet == {"a", "1", " ", "\t", "/"}

(***************************************************************************)
(* parseLine (src/index.js:97-155).                                        *)
(***************************************************************************)
RECURSIVE TrimLeft(_)
TrimLeft(s) ==
  IF s # <<>> /\ IsTrimWs(Head(s)) THEN TrimLeft(Tail(s)) ELSE s

RECURSIVE TrimRight(_)
TrimRight(s) ==
  IF s # <<>> /\ IsTrimWs(s[Len(s)])
  THEN TrimRight(SubSeq(s, 1, Len(s) - 1))
  ELSE s

\* line.trim()
Trim(s) == TrimRight(TrimLeft(s))

\* mutation of StripSlash: the regular expression without its g flag, only
\* the first '/' is removed
StripFirstSlash(s) ==
  IF \E k \in 1..Len(s) : s[k] = "/"
  THEN LET k == CHOOSE k \in 1..Len(s) :
                  s[k] = "/" /\ \A j \in 1..(k - 1) : s[j] # "/"
       IN SubSeq(s, 1, k - 1) \o SubSeq(s, k + 1, Len(s))
  ELSE s

\* .replace(/\//g, '')
RECURSIVE StripSlash(_)
StripSlash(s) ==
  IF s = <<>> THEN <<>>
  ELSE IF Head(s) = "/" THEN StripSlash(Tail(s))
  ELSE <<Head(s)>> \o StripSlash(Tail(s))

\* while (i >= 0 && /\d/.test(line.charAt(i))) i--   (1-based index here)
RECURSIVE ScanDigits(_, _)
ScanDigits(s, i) ==
  IF i >= 1 /\ IsDigit(s[i]) THEN ScanDigits(s, i - 1) ELSE i

\* mutation of ScanSep: "if" for "while", a single separator is consumed
ScanSepOnce(s, i) ==
  IF i >= 1 /\ IsSep(s[i]) THEN i - 1 ELSE i

\* while (i >= 0 && (line.charAt(i) === ' ' || line.charAt(i) === '\t')) i--
RECURSIVE ScanSep(_, _)
ScanSep(s, i) ==
  IF i >= 1 /\ IsSep(s[i]) THEN ScanSep(s, i - 1) ELSE i

\* while (i >= 0 && /[A-Za-z0-9]/.test(line.charAt(i))) i--
RECURSIVE ScanAlnum(_, _)
ScanAlnum(s, i) ==
  IF i >= 1 /\ IsAlnum(s[i]) THEN ScanAlnum(s, i - 1) ELSE i

DigitVal(c) ==
  CASE c = "0" -> 0 [] c = "1" -> 1 [] c = "2" -> 2 [] c = "3" -> 3
    [] c = "4" -> 4 [] c = "5" -> 5 [] c = "6" -> 6 [] c = "7" -> 7
    [] c = "8" -> 8 [] c = "9" -> 9

\* parseInt(fileSize, 10) on a non-empty digit run
RECURSIVE ParseInt(_)
ParseInt(d) ==
  IF d = <<>> THEN 0
  ELSE 10 * ParseInt(SubSeq(d, 1, Len(d) - 1)) + DigitVal(d[Len(d)])

\* return null
Null == [isNull |-> TRUE]

\* mutation of parseLine: the "if (!fileCid) return null" check is missing
parseLineNoCidCheck(line) ==
  LET t == Trim(line) IN
  IF t = <<>> THEN Null
  ELSE
    LET i1 == ScanDigits(t, Len(t))
        fileSize == SubSeq(t, i1 + 1, Len(t))
    IN
    IF fileSize = <<>> THEN Null
    ELSE
      LET i2 == ScanSep(t, i1)
          i3 == ScanAlnum(t, i2)
          fileCid == SubSeq(t, i3 + 1, i2)
          i4 == ScanSep(t, i3)
          fileName == StripSlash(Trim(SubSeq(t, 1, i4)))
      IN
      IF fileName = <<>> THEN Null
      ELSE [isNull |-> FALSE,
            fileName |-> fileName,
            fileCid |-> fileCid,
            fileSize |-> ParseInt(fileSize)]

parseLine(line) ==
  LET t == Trim(line) IN
  IF t = <<>> THEN Null
  ELSE
    LET i1 == ScanDigits(t, Len(t))
        fileSize == SubSeq(t, i1 + 1, Len(t))
    IN
    IF fileSize = <<>> THEN Null
    ELSE
      LET i2 == ScanSep(t, i1)
          i3 == ScanAlnum(t, i2)
          fileCid == SubSeq(t, i3 + 1, i2)
      IN
      IF fileCid = <<>> THEN Null
      ELSE
        LET i4 == ScanSep(t, i3)
            fileName == StripSlash(Trim(SubSeq(t, 1, i4)))
        IN
        IF fileName = <<>> THEN Null
        ELSE [isNull |-> FALSE,
              fileName |-> fileName,
              fileCid |-> fileCid,
              fileSize |-> ParseInt(fileSize)]

(***************************************************************************)
(* The on-chain record: orderState.toJSON().  A JSON object is a record    *)
(* whose DOMAIN holds the fields that are present; JsonNull is toJSON()    *)
(* returning null.                                                         *)
(***************************************************************************)
JsonNull == [isNull |-> TRUE]

JsonFields == {"file_size", "reported_replica_count", "expired_at"}

FieldValues(f) ==
  CASE f = "file_size" -> {0, 7}
    [] f = "reported_replica_count" -> {0, 2}
    [] f = "expired_at" -> {0, 10}

OrderJsons ==
  {JsonNull} \cup
  UNION {{o \in [D -> {0, 2, 7, 10}] : \A f \in D : o[f] \in FieldValues(f)} :
         D \in SUBSET JsonFields}

\* the answers the queries of a run get in Spec: nothing found, a replicated
\* order, an order without replica count, an order of size 0
QueryAnswers ==
  {JsonNull,
   [file_size |-> 7, reported_replica_count |-> 2, expired_at |-> 10],
   [file_size |-> 7, expired_at |-> 10],
   [file_size |-> 0, reported_replica_count |-> 2, expired_at |-> 10]}

\* the chain heights the classifier is applied to in SpecClassify
Heights == {0, 5, 10}

\* the chain heights api.rpc.chain.getHeader() reports in Spec: before and
\* at the expiry of the orders of QueryAnswers
RunHeights == {5, 10}

\* o.f || 0
OrZero(o, f) == IF f \in DOMAIN o THEN o[f] ELSE 0

\* orderJson && orderJson.file_size
HasFileSize(orderJson) ==
  /\ orderJson # JsonNull
  /\ "file_size" \in DOMAIN orderJson
  /\ orderJson["file_size"] # 0

\* mutation of StatusOf: the replica count is tested before the expiry
StatusReplicasFirst(fileReplicas, expiredAt, currentBlockNumber) ==
  IF fileReplicas > 0 THEN "Success"
  ELSE IF currentBlockNumber >= expiredAt THEN "Expired"
  ELSE "Pending"

\* src/index.js:198-204
StatusOf(fileReplicas, expiredAt, currentBlockNumber) ==
  IF currentBlockNumber >= expiredAt THEN "Expired"
  ELSE IF fileReplicas > 0 THEN "Success"
  ELSE "Pending"

\* the operation retryOperation runs, after the query has answered
\* (src/index.js:186-213); responseFileSize is the string 'Unknown' or a number
Classify(orderJson, currentBlockNumber) ==
  IF HasFileSize(orderJson)
  THEN LET fileReplicas == OrZero(orderJson, "reported_replica_count")
           expiredAt == OrZero(orderJson, "expired_at")
       IN [fileOnchainStatus |->
             StatusOf(fileReplicas, expiredAt, currentBlockNumber),
           fileReplicas |-> fileReplicas,
           responseFileSize |-> [num |-> orderJson["file_size"]]]
  ELSE [fileOnchainStatus |-> "NotFound",
        fileReplicas |-> 0,
        responseFileSize |-> [str |-> "Unknown"]]

(***************************************************************************)
(* Template strings.                                                       *)
(***************************************************************************)
DigitChar(n) ==
  CASE n = 0 -> "0" [] n = 1 -> "1" [] n = 2 -> "2" [] n = 3 -> "3"
    [] n = 4 -> "4" [] n = 5 -> "5" [] n = 6 -> "6" [] n = 7 -> "7"
    [] n = 8 -> "8" [] n = 9 -> "9"

\* String(n) for an integer n >= 0
RECURSIVE IntToChars(_)
IntToChars(n) ==
  IF n < 10 THEN <<DigitChar(n)>>
  ELSE IntToChars(n \div 10) \o <<DigitChar(n % 10)>>

ValueToChars(v) ==
  IF "str" \in DOMAIN v
  THEN <<"U", "n", "k", "n", "o", "w", "n">>
  ELSE IntToChars(v.num)

\* `${queryResult.responseFileSize} (${parsed.fileSize})`
FormatSize(responseFileSize, fileSize) ==
  ValueToChars(responseFileSize) \o <<" ", "(">> \o IntToChars(fileSize)
    \o <<")">>

(***************************************************************************)
(* outputResults (src/index.js:301-440).  An output line is a record: a    *)
(* fixed text (kind) or a table row.                                       *)
(***************************************************************************)
Text(k) == [kind |-> k]

\* mutation of InputFileSize: the first run of digits of the display size
InputFileSizeFirstDigits(fileSize) ==
  LET starts == {p \in 1..Len(fileSize) : fileSize[p] \in Digits} IN
  IF starts = {} THEN <<"U", "n", "k", "n", "o", "w", "n">>
  ELSE LET p == CHOOSE p \in starts : \A r \in starts : p <= r
           q == CHOOSE q \in p..Len(fileSize) :
                  /\ \A k \in p..q : fileSize[k] \in Digits
                  /\ (q < Len(fileSize) => fileSize[q + 1] \notin Digits)
       IN SubSeq(fileSize, p, q)

\* item.fileSize.match(/\((\d+)\)/): the digits of the leftmost "(digits)",
\* or 'Unknown'
InputFileSize(fileSize) ==
  LET Matches(p, q) ==
        /\ fileSize[p] = "(" /\ fileSize[q] = ")" /\ q > p + 1
        /\ \A k \in (p + 1)..(q - 1) : fileSize[k] \in Digits
      starts == {p \in 1..Len(fileSize) :
                   \E q \in 1..Len(fileSize) : Matches(p, q)}
  IN
  IF starts = {} THEN <<"U", "n", "k", "n", "o", "w", "n">>
  ELSE LET p == CHOOSE p \in starts : \A r \in starts : p <= r
           q == CHOOSE q \in 1..Len(fileSize) : Matches(p, q)
       IN SubSeq(fileSize, p + 1, q - 1)

\* mutation of InTable2: <= for <
InTable2AtMost(item, minReplicas) ==
  \/ item.fileOnchainStatus # "Success"
  \/ (item.fileOnchainStatus = "Success" /\ item.fileReplicas <= minReplicas)

\* the filter of TABLE 2 (src/index.js:331-335)
InTable2(item, minReplicas) ==
  \/ item.fileOnchainStatus # "Success"
  \/ (item.fileOnchainStatus = "Success" /\ item.fileReplicas < minReplicas)

Table1Row(item) ==
  [kind |-> "row1", fileName |-> item.fileName, fileCid |-> item.fileCid,
   fileSize |-> item.fileSize, fileOnchainStatus |-> item.fileOnchainStatus,
   fileReplicas |-> item.fileReplicas]

Table2Row(item) ==
  [kind |-> "row2", fileName |-> item.fileName, fileCid |-> item.fileCid,
   inputFileSize |-> InputFileSize(item.fileSize)]

Table3Row(item) ==
  [kind |-> "row3", fileName |-> item.parsedData.fileName,
   fileCid |-> item.parsedData.fileCid,
   fileSize |-> item.parsedData.fileSize, reason |-> item.reason]

SkippedNote(item) ==
  [kind |-> "skipped", lineNumber |-> item.lineNumber, reason |-> item.reason]

\* mutation of Table3Appended: TABLE 3 is appended to every report
Table3Always(skippedWithData) == TRUE

\* if (skippedWithData.length > 0) (src/index.js:373, 393, 423)
Table3Appended(skippedWithData) == Len(skippedWithData) > 0

\* mutation of Table2Only: the header and the separator are kept
Table2WithHeader(table2Lines, table2Data) == table2Lines

\* outputLines.push(...table2Data) (src/index.js:385)
Table2Only(table2Lines, table2Data) == table2Data

outputResults(res, skipped, save, mode, minReplicas, writeOk) ==
  LET table1Lines == <<Text("TABLE1 HEADER"), Text("----")>>
                       \o [k \in 1..Len(res) |-> Table1Row(res[k])]
      Keep2(item) == InTable2(item, minReplicas)
      kept == SelectSeq(res, Keep2)
      table2Data == [k \in 1..Len(kept) |-> Table2Row(kept[k])]
      table2Lines == <<Text("TABLE2 HEADER"), Text("----")>> \o table2Data
      HasData(item) == "parsedData" \in DOMAIN item
      skippedWithData == SelectSeq(skipped, HasData)
      table3Lines == <<Text("TABLE3 HEADER"), Text("----")>>
                       \o [k \in 1..Len(skippedWithData) |->
                             Table3Row(skippedWithData[k])]
      allTables == table1Lines \o <<Text("====")>> \o table2Lines
                     \o (IF Table3Appended(skippedWithData)
                         THEN <<Text("====")>> \o table3Lines
                         ELSE <<>>)
      skippedNotes == IF Len(skipped) > 0
                      THEN <<Text("The following lines were skipped")>>
                             \o [k \in 1..Len(skipped) |-> SkippedNote(skipped[k])]
                      ELSE <<>>
  IN
  IF save
  THEN IF mode = "table2" /\ Len(table2Data) = 0
       THEN [written |-> FALSE, file |-> <<>>,
             console |-> <<Text("TABLE2 is empty, no log file generated")>>]
       ELSE LET outputLines == IF mode = "table2"
                               THEN Table2Only(table2Lines, table2Data)
                               ELSE allTables
            IN
            IF writeOk
            THEN [written |-> TRUE, file |-> outputLines,
                  console |-> <<Text("Results have been written"),
                                Text("Log file content:")>>
                                \o outputLines \o skippedNotes]
            ELSE [written |-> FALSE, file |-> <<>>,
                  console |-> <<Text("Error in outputResults")>>]
  ELSE [written |-> FALSE, file |-> <<>>,
        console |-> <<Text("Results:")>> \o allTables \o skippedNotes]

(***************************************************************************)
(* Command-line options (src/index.js:35-74).  argv holds, for each flag,  *)
(* whether it was given and the string given with it; a string option's    *)
(* value may be the empty string.                                          *)
(***************************************************************************)
NotGiven == [given |-> FALSE]

Given(values) == {NotGiven} \cup {[given |-> TRUE, value |-> v] : v \in values}

OptionNames == {"out", "saveLog", "minReplicasCount", "saveLogMode"}

\* the defaults declared with .option() (src/index.js:41-42)
OptionDefaults ==
  [minReplicasCount |-> <<"3">>, saveLogMode |-> "default"]

\* program.opts(): the values given on the command line over the declared
\* defaults; an option neither given nor defaulted is undefined (absent)
programOpts(args) ==
  [f \in {g \in OptionNames : args[g].given} \cup DOMAIN OptionDefaults |->
     IF args[f].given THEN args[f].value ELSE OptionDefaults[f]]

\* value.toLowerCase(), on the strings --save-log is given in the model
ToLowerCase(value) ==
  CASE value = "TRUE" -> "true"
    [] value = "True" -> "true"
    [] OTHER -> value

\* parseBoolean on a string (src/index.js:49-54)
parseBoolean(value) == ToLowerCase(value) = "true"

\* parseInt(options.minReplicasCount, 10) || 3 (src/index.js:56, 309)
MinReplicasCountOf(options) ==
  LET n == ParseInt(options.minReplicasCount) IN
  IF n = 0 THEN 3 ELSE n

\* program.getOptionValueSource('saveLogMode') !== 'default'
saveLogModeSpecified(args) == args.saveLogMode.given

\* options.saveLogMode || 'default' (src/index.js:62, 308)
SaveLogModeOf(options) ==
  IF options.saveLogMode = "" THEN "default" ELSE options.saveLogMode

\* mutation of SaveLogOf: --save-log is looked at before --save-log-mode
SaveLogFlagFirst(args) ==
  LET options == programOpts(args) IN
  IF "saveLog" \in DOMAIN options THEN parseBoolean(options.saveLog)
  ELSE IF saveLogModeSpecified(args) THEN TRUE
  ELSE IF "out" \in DOMAIN options /\ options.out # "" THEN TRUE
  ELSE FALSE

\* the value saveLog gets (src/index.js:64-74)
SaveLogOf(args) ==
  LET options == programOpts(args) IN
  IF saveLogModeSpecified(args) THEN TRUE
  ELSE IF "out" \in DOMAIN options /\ options.out # "" THEN TRUE
  ELSE IF "saveLog" \in DOMAIN options THEN parseBoolean(options.saveLog)
  ELSE FALSE

\* the command lines of SpecOptions
AllArgv ==
  [out : Given({"", "out.log"}),
   saveLog : Given({"true", "false", "TRUE"}),
   minReplicasCount : Given({<<"0">>, <<"2">>, <<"3">>, <<"1", "0">>}),
   saveLogMode : Given({"default", "table2", ""})]

NoFlags ==
  [out |-> NotGiven, saveLog |-> NotGiven, minReplicasCount |-> NotGiven,
   saveLogMode |-> NotGiven]

\* the command lines of the runs of Spec: console or file, both modes, both
\* sides of the replica count of QueryAnswers
RunArgv ==
  {[NoFlags EXCEPT !.minReplicasCount = m, !.saveLog = l, !.saveLogMode = d] :
     m \in Given({<<"2">>}),
     l \in Given({"true"}),
     d \in Given({"table2"})}

(***************************************************************************)
(* retryOperation's parameters (src/index.js:160-162).                     *)
(***************************************************************************)
maxRetries == 3

initialDelay == 1000

factor == 2

\* mutation of ShouldRethrow: gives up one failure early
ShouldRethrowEarly(currentRetry) == currentRetry >= maxRetries - 1

\* mutation of ShouldRethrow: > for >=
ShouldRethrowLate(currentRetry) == currentRetry > maxRetries

\* if (currentRetry >= maxRetries) throw err
ShouldRethrow(currentRetry) == currentRetry >= maxRetries

\* the messages a failing query may carry
Errors == {"timeout", "disconnected"}

(***************************************************************************)
(* State.                                                                  *)
(***************************************************************************)
VARIABLES
  lines,               \* processLines: the lines read from the input
  pc,                  \* where the run stands
  currentBlockNumber,  \* processLines: -1 while undefined
  i,                   \* processLines: lines of the loop completed
  results,             \* processLines: ResultItem[]
  skippedLines,        \* processLines: SkippedLine[]
  currentRetry,        \* retryOperation
  delay,               \* retryOperation
  inflight,            \* line numbers of the queries sent and not answered
  attemptLog,          \* what the latest retryOperation did, until the loop
                       \* moves on
  produced,            \* which line pushed onto which collection, in order
  saveLog,             \* module level: whether the report goes to a file
  saveLogMode,         \* options.saveLogMode
  minReplicasCount,    \* parseInt(options.minReplicasCount, 10) || 3
  report,              \* what outputResults wrote and printed
  argv,                \* process.argv: the flags given
  connection,          \* api: "none", "open", "released", "releaseFailed"
  queried,             \* line numbers a query has been sent for
  headerFetches,       \* how many times getHeader() has answered
  heightsUsed,         \* the heights the classifications were made with
  exitCode,            \* process.exit's argument, -1 while running
  pLine,    \* SpecParse: the raw line handed to parseLine
  pResult,  \* SpecParse: what parseLine returned, NotRun before the call
  cJson,    \* SpecClassify: the on-chain record
  cHeight,  \* SpecClassify: the current height
  cResult   \* SpecClassify: what the classifier returned

runVars ==
  <<lines, pc, currentBlockNumber, i, results, skippedLines, currentRetry,
    delay, inflight, attemptLog, produced, saveLog, saveLogMode,
    minReplicasCount, report, exitCode, argv, connection, queried,
    headerFetches, heightsUsed>>

parseVars == <<pLine, pResult>>

classifyVars == <<cJson, cHeight, cResult>>

vars == <<runVars, parseVars, classifyVars>>

NotRun == [notRun |-> TRUE]

LinesUpTo(n) == UNION {[1..k -> Alphabet] : k \in 0..n}

\* the lines a run's input is made of: two well-formed lines (the second
\* with a '/' in its name and a tab), a line without a size, an empty line
SampleLines ==
  {<<"a", " ", "b", " ", "1">>,
   <<"c", "/", "\t", "d", " ", "2", "3">>,
   <<"z", "z">>,
   <<>>}

NoReport == [written |-> FALSE, file |-> <<>>, console |-> <<>>]

RunIdle ==
  /\ lines = <<>>
  /\ pc = "idle"
  /\ currentBlockNumber = -1
  /\ i = 0
  /\ results = <<>>
  /\ skippedLines = <<>>
  /\ currentRetry = 0
  /\ delay = 0
  /\ inflight = <<>>
  /\ attemptLog = <<>>
  /\ produced = <<>>
  /\ saveLog = FALSE
  /\ saveLogMode = "default"
  /\ minReplicasCount = 3
  /\ report = NoReport
  /\ exitCode = -1
  /\ argv = NoFlags
  /\ connection = "none"
  /\ queried = {}
  /\ headerFetches = 0
  /\ heightsUsed = {}

ParseIdle == pLine = <<>> /\ pResult = NotRun

ClassifyIdle == cJson = JsonNull /\ cHeight = 0 /\ cResult = NotRun

(***************************************************************************)
(* Spec: one run of main() (src/index.js:455-487) through processLines     *)
(* (src/index.js:217-299).                                                 *)
(***************************************************************************)
\* the state once every line has been read (src/index.js:219-230)
Init ==
  /\ lines \in UNION {[1..k -> SampleLines] : k \in 0..MaxLines}
  /\ pc = "connect"
  /\ currentBlockNumber = -1
  /\ i = 0
  /\ results = <<>>
  /\ skippedLines = <<>>
  /\ currentRetry = 0
  /\ delay = 0
  /\ inflight = <<>>
  /\ attemptLog = <<>>
  /\ produced = <<>>
  /\ argv \in RunArgv
  /\ saveLog = SaveLogOf(argv)
  /\ saveLogMode = SaveLogModeOf(programOpts(argv))
  /\ minReplicasCount = MinReplicasCountOf(programOpts(argv))
  /\ report = NoReport
  /\ exitCode = -1
  /\ connection = "none"
  /\ queried = {}
  /\ headerFetches = 0
  /\ heightsUsed = {}
  /\ ParseIdle
  /\ ClassifyIdle

\* mutation of PushSkipped: the entry is not recorded
DropSkipped(skipped, entry) == skipped

\* skippedLines.push(entry) (src/index.js:258, 278)
PushSkipped(skipped, entry) == Append(skipped, entry)

\* mutation of ExitCodeOnCompletion: a run with skipped lines exits with 1
ExitCodeBySkipped(skipped) == IF Len(skipped) > 0 THEN 1 ELSE 0

\* main's process.exit(0) once processLines has returned (src/index.js:482)
ExitCodeOnCompletion(skipped) == 0

\* mutation of Exit: the call does not end the process
NoExit(code) == pc' = pc /\ exitCode' = exitCode

\* process.exit(code)
Exit(code) == pc' = "exited" /\ exitCode' = code

\* api = await initApi() resolves
InitApiReady ==
  /\ pc = "connect"
  /\ pc' = "header"
  /\ UNCHANGED <<lines, currentBlockNumber, i, results, skippedLines,
                 currentRetry, delay, inflight, attemptLog, produced,
                 saveLog, saveLogMode, minReplicasCount, report, exitCode>>
  /\ connection' = "open"
  /\ UNCHANGED <<argv, queried, headerFetches, heightsUsed>>
  /\ UNCHANGED <<parseVars, classifyVars>>

\* initApi() throws: the catch of src/index.js:242-245
InitApiFails ==
  /\ pc = "connect"
  /\ Exit(1)
  /\ UNCHANGED <<lines, currentBlockNumber, i, results, skippedLines,
                 currentRetry, delay, inflight, attemptLog, produced,
                 saveLog, saveLogMode, minReplicasCount, report>>
  /\ UNCHANGED <<argv, connection, queried, headerFetches, heightsUsed>>
  /\ UNCHANGED <<parseVars, classifyVars>>

\* currentBlockNumber = (await api.rpc.chain.getHeader()).number.toNumber()
GetHeaderOk ==
  /\ pc = "header"
  /\ \E h \in RunHeights : currentBlockNumber' = h
  /\ pc' = "loop"
  /\ UNCHANGED <<lines, i, results, skippedLines, currentRetry, delay,
                 inflight, attemptLog, produced, saveLog, saveLogMode,
                 minReplicasCount, report, exitCode>>
  /\ headerFetches' = headerFetches + 1
  /\ UNCHANGED <<argv, connection, queried, heightsUsed>>
  /\ UNCHANGED <<parseVars, classifyVars>>

\* getHeader() throws: the catch of src/index.js:242-245
GetHeaderFails ==
  /\ pc = "header"
  /\ Exit(1)
  /\ UNCHANGED <<lines, currentBlockNumber, i, results, skippedLines,
                 currentRetry, delay, inflight, attemptLog, produced,
                 saveLog, saveLogMode, minReplicasCount, report>>
  /\ UNCHANGED <<argv, connection, queried, headerFetches, heightsUsed>>
  /\ UNCHANGED <<parseVars, classifyVars>>

\* a loop iteration whose line parseLine rejects (src/index.js:252-260)
ParseRejected ==
  /\ pc = "loop"
  /\ i < Len(lines)
  /\ parseLine(lines[i + 1]) = Null
  /\ skippedLines' = PushSkipped(skippedLines,
                                 [lineNumber |-> i + 1,
                                  line |-> lines[i + 1],
                                  reason |-> <<"Incorrect format">>])
  /\ produced' = Append(produced, [lineNumber |-> i + 1, to |-> "skippedLines"])
  /\ i' = i + 1
  /\ attemptLog' = <<>>
  /\ UNCHANGED <<lines, pc, currentBlockNumber, results, currentRetry, delay,
                 inflight, saveLog, saveLogMode,
                 minReplicasCount, report, exitCode>>
  /\ UNCHANGED <<argv, connection, queried, headerFetches, heightsUsed>>
  /\ UNCHANGED <<parseVars, classifyVars>>

\* mutation of AwaitQuery: queryFileCid is called without await, the loop
\* goes on while the query is in flight
NoAwaitQuery == "loop"

\* await queryFileCid(...) (src/index.js:263): the loop is suspended
AwaitQuery == "query"

\* a loop iteration whose line parses: queryFileCid calls retryOperation,
\* which sends the first query (src/index.js:263, 164-169, 185)
StartQuery ==
  /\ pc = "loop"
  /\ i < Len(lines)
  /\ parseLine(lines[i + 1]) # Null
  /\ currentRetry' = 0
  /\ delay' = initialDelay
  /\ inflight' = Append(inflight, i + 1)
  /\ attemptLog' = <<>>
  /\ pc' = AwaitQuery
  /\ UNCHANGED <<lines, currentBlockNumber, i, results, skippedLines,
                 produced, saveLog, saveLogMode, minReplicasCount, report,
                 exitCode>>
  /\ queried' = queried \cup {i + 1}
  /\ UNCHANGED <<argv, connection, headerFetches, heightsUsed>>
  /\ UNCHANGED <<parseVars, classifyVars>>

\* mutation of NextIteration: every iteration fetches the height again
RefetchHeight == "header"

\* the loop goes on with its next iteration (src/index.js:251)
NextIteration == "loop"

\* the query answers; the operation classifies the record, retryOperation
\* returns it and the loop pushes the ResultItem (src/index.js:185-213,
\* 169, 265-271)
QuerySucceeds ==
  /\ pc = "query"
  /\ \E orderJson \in QueryAnswers :
       LET parsed == parseLine(lines[i + 1])
           queryResult == Classify(orderJson, currentBlockNumber)
       IN
       /\ attemptLog' = Append(attemptLog,
                               [kind |-> "ok", answer |-> orderJson])
       /\ results' = Append(results,
            [fileName |-> parsed.fileName,
             fileCid |-> parsed.fileCid,
             fileSize |-> FormatSize(queryResult.responseFileSize,
                                     parsed.fileSize),
             fileOnchainStatus |-> queryResult.fileOnchainStatus,
             fileReplicas |-> queryResult.fileReplicas])
  /\ inflight' = Tail(inflight)
  /\ produced' = Append(produced, [lineNumber |-> i + 1, to |-> "results"])
  /\ i' = i + 1
  /\ pc' = NextIteration
  /\ UNCHANGED <<lines, currentBlockNumber, skippedLines, currentRetry,
                 delay, saveLog, saveLogMode, minReplicasCount, report,
                 exitCode>>
  /\ heightsUsed' = heightsUsed \cup {currentBlockNumber}
  /\ UNCHANGED <<argv, connection, queried, headerFetches>>
  /\ UNCHANGED <<parseVars, classifyVars>>

\* the query fails and attempts are left: retryOperation starts its wait
\* (src/index.js:170-177)
QueryFailsRetry ==
  /\ pc = "query"
  /\ ~ShouldRethrow(currentRetry + 1)
  /\ \E err \in Errors :
       attemptLog' = Append(attemptLog, [kind |-> "fail", error |-> err])
  /\ currentRetry' = currentRetry + 1
  /\ inflight' = Tail(inflight)
  /\ pc' = "backoff"
  /\ UNCHANGED <<lines, currentBlockNumber, i, results, skippedLines, delay,
                 produced, saveLog, saveLogMode, minReplicasCount, report,
                 exitCode>>
  /\ UNCHANGED <<argv, connection, queried, headerFetches, heightsUsed>>
  /\ UNCHANGED <<parseVars, classifyVars>>

\* mutation of NextDelay: the delay stays flat
FlatDelay(d) == d

\* delay *= factor (src/index.js:178)
NextDelay(d) == d * factor

\* the wait is over: delay *= factor and the operation is run again
\* (src/index.js:177-178, 167-169)
BackoffElapsed ==
  /\ pc = "backoff"
  /\ attemptLog' = Append(attemptLog, [kind |-> "wait", ms |-> delay])
  /\ delay' = NextDelay(delay)
  /\ inflight' = Append(inflight, i + 1)
  /\ pc' = "query"
  /\ UNCHANGED <<lines, currentBlockNumber, i, results, skippedLines,
                 currentRetry, produced, saveLog, saveLogMode,
                 minReplicasCount, report, exitCode>>
  /\ queried' = queried \cup {i + 1}
  /\ UNCHANGED <<argv, connection, headerFetches, heightsUsed>>
  /\ UNCHANGED <<parseVars, classifyVars>>

\* the reason of a line whose query failed:
\* `Query failed after retries: ${error.message}`
FailureReason(err) == <<"Query failed after retries: ", err>>

\* the query fails and no attempt is left: retryOperation rethrows err and
\* the loop's catch pushes the SkippedLine (src/index.js:170-174, 275-284)
QueryFailsFinal ==
  /\ pc = "query"
  /\ ShouldRethrow(currentRetry + 1)
  /\ \E err \in Errors :
       /\ attemptLog' = Append(attemptLog, [kind |-> "fail", error |-> err])
       /\ skippedLines' = PushSkipped(skippedLines,
                                 [lineNumber |-> i + 1,
                                  line |-> lines[i + 1],
                                  reason |-> FailureReason(err),
                                  parsedData |-> parseLine(lines[i + 1])])
  /\ currentRetry' = currentRetry + 1
  /\ inflight' = Tail(inflight)
  /\ produced' = Append(produced, [lineNumber |-> i + 1, to |-> "skippedLines"])
  /\ i' = i + 1
  /\ pc' = NextIteration
  /\ UNCHANGED <<lines, currentBlockNumber, results, delay, saveLog,
                 saveLogMode, minReplicasCount, report, exitCode>>
  /\ UNCHANGED <<argv, connection, queried, headerFetches, heightsUsed>>
  /\ UNCHANGED <<parseVars, classifyVars>>

\* the loop is over and await api.disconnect() resolves (src/index.js:288-290)
DisconnectOk ==
  /\ pc = "loop"
  /\ i >= Len(lines)
  /\ pc' = "output"
  /\ attemptLog' = <<>>
  /\ UNCHANGED <<lines, currentBlockNumber, i, results, skippedLines,
                 currentRetry, delay, inflight, produced,
                 saveLog, saveLogMode, minReplicasCount, report, exitCode>>
  /\ connection' = "released"
  /\ UNCHANGED <<argv, queried, headerFetches, heightsUsed>>
  /\ UNCHANGED <<parseVars, classifyVars>>

\* the loop is over and api.disconnect() throws: the catch of
\* src/index.js:295-298
DisconnectFails ==
  /\ pc = "loop"
  /\ i >= Len(lines)
  /\ Exit(1)
  /\ attemptLog' = <<>>
  /\ UNCHANGED <<lines, currentBlockNumber, i, results, skippedLines,
                 currentRetry, delay, inflight, produced,
                 saveLog, saveLogMode, minReplicasCount, report>>
  /\ connection' = "releaseFailed"
  /\ UNCHANGED <<argv, queried, headerFetches, heightsUsed>>
  /\ UNCHANGED <<parseVars, classifyVars>>

\* outputResults(results, skippedLines, saveLog, options) with the file
\* written or fs.writeFileSync throwing, then main's process.exit(0)
\* (src/index.js:293, 482)
OutputAndExit ==
  /\ pc = "output"
  /\ \E writeOk \in BOOLEAN :
       report' = outputResults(results, skippedLines, saveLog, saveLogMode,
                               minReplicasCount, writeOk)
  /\ Exit(ExitCodeOnCompletion(skippedLines))
  /\ UNCHANGED <<lines, currentBlockNumber, i, results, skippedLines,
                 currentRetry, delay, inflight, attemptLog, produced,
                 saveLog, saveLogMode, minReplicasCount>>
  /\ UNCHANGED <<argv, connection, queried, headerFetches, heightsUsed>>
  /\ UNCHANGED <<parseVars, classifyVars>>

Next ==
  \/ InitApiReady
  \/ InitApiFails
  \/ GetHeaderOk
  \/ GetHeaderFails
  \/ ParseRejected
  \/ StartQuery
  \/ QuerySucceeds
  \/ QueryFailsRetry
  \/ BackoffElapsed
  \/ QueryFailsFinal
  \/ DisconnectOk
  \/ DisconnectFails
  \/ OutputAndExit

Spec == Init /\ [][Next]_vars

\* the steps of the loop that handle a line (ParseRejected, StartQuery,
\* QuerySucceeds, QueryFailsFinal), by what they do to pc and i: one of them
\* is enabled exactly when the loop stands at a line or a query is in flight
LineStep ==
  \/ /\ pc = "loop"
     /\ i < Len(lines)
     /\ \/ pc' = pc /\ i' = i + 1
        \/ pc' = AwaitQuery /\ i' = i
  \/ /\ pc = "query"
     /\ pc' = NextIteration
     /\ i' = i + 1

\* the other steps of the run
OtherStep ==
  \/ InitApiReady
  \/ InitApiFails
  \/ GetHeaderOk
  \/ GetHeaderFails
  \/ QueryFailsRetry
  \/ BackoffElapsed
  \/ DisconnectOk
  \/ DisconnectFails
  \/ OutputAndExit

\* the run under the scheduling of the event loop: every awaited call
\* returns or fails, every timer fires, and the code after it runs
\* the command lines of the runs of SpecLive: the report on the console and
\* the report in a file of table2 mode, which may not be written
LiveArgv ==
  {NoFlags,
   [NoFlags EXCEPT !.saveLogMode = [given |-> TRUE, value |-> "table2"]]}

\* the lines of the runs of SpecLive: a line that parses, a line that does not
LiveLines == {<<"a", " ", "b", " ", "1">>, <<"z", "z">>}

InitLive ==
  /\ Init
  /\ argv \in LiveArgv
  /\ \A k \in 1..Len(lines) : lines[k] \in LiveLines

SpecLive ==
  InitLive /\ [][Next]_vars /\ WF_vars(OtherStep) /\ WF_<<pc, i>>(LineStep)

(***************************************************************************)
(* SpecParse: parseLine applied to every line of at most MaxLineLen        *)
(* characters.                                                             *)
(***************************************************************************)
InitParse ==
  /\ pLine \in LinesUpTo(MaxLineLen)
  /\ pResult = NotRun
  /\ RunIdle
  /\ ClassifyIdle

CallParseLine ==
  /\ pResult = NotRun
  /\ pResult' = parseLine(pLine)
  /\ UNCHANGED <<pLine, runVars, classifyVars>>

NextParse == CallParseLine

SpecParse == InitParse /\ [][NextParse]_vars

(***************************************************************************)
(* SpecClassify: the classifier applied to every on-chain record and       *)
(* height.                                                                 *)
(***************************************************************************)
InitClassify ==
  /\ cJson \in OrderJsons
  /\ cHeight \in Heights
  /\ cResult = NotRun
  /\ RunIdle
  /\ ParseIdle

CallClassify ==
  /\ cResult = NotRun
  /\ cResult' = Classify(cJson, cHeight)
  /\ UNCHANGED <<cJson, cHeight, runVars, parseVars>>

NextClassify == CallClassify

SpecClassify == InitClassify /\ [][NextClassify]_vars

(***************************************************************************)
(* SpecOptions: the module-level code that reads the options                *)
(* (src/index.js:45-74), on every command line of AllArgv.                 *)
(***************************************************************************)
InitOptions ==
  /\ argv \in AllArgv
  /\ pc = "options"
  /\ lines = <<>>
  /\ currentBlockNumber = -1
  /\ i = 0
  /\ results = <<>>
  /\ skippedLines = <<>>
  /\ currentRetry = 0
  /\ delay = 0
  /\ inflight = <<>>
  /\ attemptLog = <<>>
  /\ produced = <<>>
  /\ saveLog = FALSE
  /\ saveLogMode = "default"
  /\ minReplicasCount = 3
  /\ report = NoReport
  /\ exitCode = -1
  /\ connection = "none"
  /\ queried = {}
  /\ headerFetches = 0
  /\ heightsUsed = {}
  /\ ParseIdle
  /\ ClassifyIdle

\* src/index.js:47-74
ReadOptions ==
  /\ pc = "options"
  /\ minReplicasCount' = MinReplicasCountOf(programOpts(argv))
  /\ saveLogMode' = SaveLogModeOf(programOpts(argv))
  /\ saveLog' = SaveLogOf(argv)
  /\ pc' = "configured"
  /\ UNCHANGED <<lines, currentBlockNumber, i, results, skippedLines,
                 currentRetry, delay, inflight, attemptLog, produced, report,
                 exitCode, argv, connection, queried, headerFetches,
                 heightsUsed>>
  /\ UNCHANGED <<parseVars, classifyVars>>

NextOptions == ReadOptions

SpecOptions == InitOptions /\ [][NextOptions]_vars

(***************************************************************************)
(* Vocabulary of the run's claims.                                         *)
(***************************************************************************)
\* initialization passed: the height has been fetched
InitPassed == currentBlockNumber # -1

\* the per-line loop has finished
LoopFinished == InitPassed /\ pc \in {"output", "exited"}

\* how many entries line n has pushed onto collection c
Pushed(n, c) ==
  Cardinality({k \in 1..Len(produced) :
                 produced[k].lineNumber = n /\ produced[k].to = c})

\* the pushes onto collection c, in order
PushedOnto(c) == SelectSeq(produced, LAMBDA e : e.to = c)

Calls(log) == SelectSeq(log, LAMBDA e : e.kind \in {"ok", "fail"})

Fails(log) == SelectSeq(log, LAMBDA e : e.kind = "fail")

Last(s) == s[Len(s)]

\* the ResultItem the loop builds for line n from the answer orderJson
ResultFor(n, orderJson) ==
  LET parsed == parseLine(lines[n])
      q == Classify(orderJson, currentBlockNumber)
  IN [fileName |-> parsed.fileName,
      fileCid |-> parsed.fileCid,
      fileSize |-> FormatSize(q.responseFileSize, parsed.fileSize),
      fileOnchainStatus |-> q.fileOnchainStatus,
      fileReplicas |-> q.fileReplicas]

(***************************************************************************)
(* C1: once the first i lines are processed the two collections hold       *)
(* exactly i entries, one per line and never two for a line; when the loop *)
(* has finished every line has exactly one ResultItem or SkippedLine.      *)
(***************************************************************************)
C1_OneOutcomePerLine ==
  /\ Len(results) + Len(skippedLines) = i
  /\ Len(results) = Len(PushedOnto("results"))
  /\ Len(skippedLines) = Len(PushedOnto("skippedLines"))
  /\ \A k \in 1..Len(skippedLines) :
       skippedLines[k].lineNumber = PushedOnto("skippedLines")[k].lineNumber
  /\ \A n \in 1..Len(lines) :
       Pushed(n, "results") + Pushed(n, "skippedLines")
         = (IF n <= i THEN 1 ELSE 0)
  /\ LoopFinished => i = Len(lines)

\* the loop has finished on two lines, one with a ResultItem and one skipped
C1_Witness ==
  /\ pc = "output"
  /\ Len(lines) = 2
  /\ Len(results) = 1
  /\ Len(skippedLines) = 1

(***************************************************************************)
(* C7: a query that first succeeds at attempt k <= maxRetries is given up  *)
(* by none of the k - 1 failures before it, its value is what the loop     *)
(* gets, after exactly k invocations, and nothing is invoked after it.     *)
(***************************************************************************)
C7_FirstSuccessReturned ==
  /\ \A k \in 1..Len(attemptLog) :
       attemptLog[k].kind = "ok" => k = Len(attemptLog)
  /\ (attemptLog # <<>> /\ Last(attemptLog).kind = "ok") =>
       /\ pc = "loop" /\ inflight = <<>>
       /\ Len(Calls(attemptLog)) = Len(Fails(attemptLog)) + 1
       /\ Len(Calls(attemptLog)) <= maxRetries
       /\ Last(produced) = [lineNumber |-> i, to |-> "results"]
       /\ Last(results) = ResultFor(i, Last(attemptLog).answer)
  \* the wrapper gives up only when maxRetries attempts have failed
  /\ (pc = "loop" /\ attemptLog # <<>> /\ Last(attemptLog).kind = "fail") =>
       Len(Fails(attemptLog)) = maxRetries

\* two failures, two waits, then the answer of the third attempt returned
C7_Witness ==
  /\ pc = "loop"
  /\ Len(attemptLog) = 5
  /\ Last(attemptLog).kind = "ok"
  /\ Len(Fails(attemptLog)) = 2
  /\ Last(results).fileOnchainStatus = "Success"

(***************************************************************************)
(* C8: a query failing at every attempt is invoked exactly maxRetries      *)
(* times, and the SkippedLine of its line carries the message of the last  *)
(* failure.                                                                *)
(***************************************************************************)
C8_LastErrorAfterMaxRetries ==
  /\ Len(Calls(attemptLog)) <= maxRetries
  /\ (pc = "loop" /\ attemptLog # <<>> /\ Last(attemptLog).kind = "fail") =>
       /\ Len(Calls(attemptLog)) = maxRetries
       /\ Len(Fails(attemptLog)) = maxRetries
       /\ inflight = <<>>
       /\ Last(produced) = [lineNumber |-> i, to |-> "skippedLines"]
       /\ Last(skippedLines) =
            [lineNumber |-> i,
             line |-> lines[i],
             reason |-> FailureReason(Last(attemptLog).error),
             parsedData |-> parseLine(lines[i])]

\* three failures, the last with another message than the first two
C8_Witness ==
  /\ pc = "loop"
  /\ Len(Fails(attemptLog)) = 3
  /\ Fails(attemptLog)[1].error = "timeout"
  /\ Fails(attemptLog)[2].error = "timeout"
  /\ Fails(attemptLog)[3].error = "disconnected"
  /\ Last(skippedLines).reason = FailureReason("disconnected")

(***************************************************************************)
(* C9: at most one query is in flight, and a query in flight is a query of *)
(* line i + 1 while exactly the lines 1..i have their final outcome.       *)
(***************************************************************************)
C9_OneQueryInFlight ==
  /\ Len(inflight) <= 1
  /\ \A k \in 1..Len(inflight) :
       /\ inflight[k] = i + 1
       /\ \A n \in 1..Len(lines) :
            Pushed(n, "results") + Pushed(n, "skippedLines")
              = (IF n < inflight[k] THEN 1 ELSE 0)
  /\ (pc = "backoff") => (inflight = <<>> /\ Len(produced) = i)

\* line 1 failed all its attempts and a retry of line 2 is in flight
C9_Witness ==
  /\ pc = "query"
  /\ inflight = <<2>>
  /\ currentRetry = 1
  /\ Len(skippedLines) = 1
  /\ "parsedData" \in DOMAIN skippedLines[1]

(***************************************************************************)
(* C10: a run that passes initialization and completes (outputResults has  *)
(* been called) exits with 0 whatever the number of skipped lines, and 0   *)
(* is the exit code of such runs only; a run whose connection or height    *)
(* fetch fails exits with a non-zero code, having sent no query and        *)
(* emitted no report.                                                      *)
(***************************************************************************)
C10_ExitCodes ==
  /\ (pc = "exited" /\ InitPassed /\ report # NoReport) => exitCode = 0
  /\ (pc = "exited" /\ exitCode = 0) =>
       (InitPassed /\ i = Len(lines) /\ report # NoReport)
  /\ (pc = "exited" /\ ~InitPassed) =>
       /\ exitCode # 0
       /\ report = NoReport
       /\ i = 0 /\ produced = <<>> /\ inflight = <<>> /\ attemptLog = <<>>
       /\ delay = 0
  /\ (pc # "exited") => exitCode = -1

\* a run of two lines, both skipped (one rejected, one failed), exited with 0
C10_Witness ==
  /\ pc = "exited"
  /\ exitCode = 0
  /\ Len(skippedLines) = 2
  /\ "parsedData" \in DOMAIN skippedLines[2]
  /\ "parsedData" \notin DOMAIN skippedLines[1]

\* a run whose height fetch failed has exited with 1
C10_WitnessInitFailure ==
  /\ pc = "exited"
  /\ exitCode = 1
  /\ ~InitPassed
  /\ Len(lines) = 2

(***************************************************************************)
(* Vocabulary of the parser claims, stated on the raw line and not through *)
(* parseLine's own scans.                                                  *)
(***************************************************************************)
All(s, S) == \A k \in 1..Len(s) : s[k] \in S

AlnumChars == Letters \cup Digits

SepChars == {" ", "\t"}

WsChars == {" ", "\t", "\n", "\r", "\f"}

\* the decimal value of a digit run, most significant digit first
RECURSIVE DecimalValue(_, _)
DecimalValue(d, acc) ==
  IF d = <<>> THEN acc
  ELSE DecimalValue(Tail(d), 10 * acc + DigitVal(Head(d)))

\* the whitespace-delimited tokens of a line, left to right
RECURSIVE TokensOf(_)
TokensOf(s) ==
  LET t == TrimLeft(s) IN
  IF t = <<>> THEN <<>>
  ELSE
    LET k == CHOOSE k \in 1..(Len(t) + 1) :
                  /\ (k = Len(t) + 1 \/ t[k] \in WsChars)
                  /\ \A j \in 1..(k - 1) : t[j] \notin WsChars
    IN <<SubSeq(t, 1, k - 1)>> \o TokensOf(SubSeq(t, k, Len(t)))

\* the longest suffix of s made of digits
TrailingDigits(s) ==
  LET k == CHOOSE k \in 0..Len(s) :
                /\ All(SubSeq(s, Len(s) - k + 1, Len(s)), Digits)
                /\ (k < Len(s) => s[Len(s) - k] \notin Digits)
  IN SubSeq(s, Len(s) - k + 1, Len(s))

\* l = name, separators, id, separators, size, cut after positions a < b < c < d
FieldsAt(l, a, b, c, d) ==
  [name |-> SubSeq(l, 1, a),
   sep1 |-> SubSeq(l, a + 1, b),
   id   |-> SubSeq(l, b + 1, c),
   sep2 |-> SubSeq(l, c + 1, d),
   size |-> SubSeq(l, d + 1, Len(l))]

Cuts(l) ==
  UNION {UNION {UNION {{<<a, b, c, d>> : d \in (c + 1)..(Len(l) - 1)} :
                       c \in (b + 1)..(Len(l) - 2)} :
                b \in (a + 1)..(Len(l) - 3)} :
         a \in 1..(Len(l) - 4)}

\* the well-formed lines of C2
WellFormed(f) ==
  /\ f.name # <<>> /\ All(f.name, Alphabet \ {"/"})
  /\ f.name[1] \notin WsChars /\ f.name[Len(f.name)] \notin WsChars
  /\ All(f.sep1, SepChars)
  /\ All(f.id, AlnumChars)
  /\ All(f.sep2, SepChars)
  /\ All(f.size, Digits)

Parsed == pResult # NotRun

Returned == Parsed /\ pResult # Null

(***************************************************************************)
(* C2: a line "name seps id seps size" (name non-empty, without '/' and    *)
(* without leading or trailing whitespace, id alphanumeric, size digits)   *)
(* is parsed to exactly {name, id, value of size}.                         *)
(***************************************************************************)
C2_WellFormedLineParsedExactly ==
  Parsed =>
    \A q \in Cuts(pLine) :
      LET f == FieldsAt(pLine, q[1], q[2], q[3], q[4]) IN
      WellFormed(f) =>
        pResult = [isNull |-> FALSE,
                   fileName |-> f.name,
                   fileCid |-> f.id,
                   fileSize |-> DecimalValue(f.size, 0)]

\* "a a<TAB>a 1": a name with an inner space, parsed
C2_Witness ==
  /\ pLine = <<"a", " ", "a", "\t", "a", " ", "1">>
  /\ pResult = [isNull |-> FALSE,
                fileName |-> <<"a", " ", "a">>,
                fileCid |-> <<"a">>,
                fileSize |-> 1]

(***************************************************************************)
(* C3.                                                                     *)
(***************************************************************************)
LastTokenIsDigits(l) ==
  LET tk == TokensOf(l) IN
  Len(tk) >= 2 /\ All(tk[Len(tk)], Digits)

SecondToLast(l) == LET tk == TokensOf(l) IN tk[Len(tk) - 1]

RecordWellFormed ==
  Returned =>
    /\ pResult.fileName # <<>>
    /\ All(pResult.fileName, Alphabet \ {"/"})
    /\ pResult.fileCid # <<>>
    /\ All(pResult.fileCid, AlnumChars)
    /\ pResult.fileSize >= 0
    /\ pResult.fileSize = DecimalValue(TrailingDigits(Trim(pLine)), 0)

\* the lines "N seps id seps size" whose name portion N is made of the
\* characters of S only
NamePortionWithin(l, S) ==
  \E q \in Cuts(l) :
    LET f == FieldsAt(l, q[1], q[2], q[3], q[4]) IN
    /\ All(f.name, S)
    /\ All(f.sep1, SepChars)
    /\ All(f.id, AlnumChars)
    /\ All(f.sep2, SepChars)
    /\ All(f.size, Digits)

\* C4 as claimed: every returned record has a non-empty '/'-free fileName,
\* a non-empty alphanumeric fileCid and the value of the trailing digit run
\* as fileSize; a line whose name portion consists only of '/' and
\* whitespace is rejected.
C4_Original_RecordAndSlashOnlyName ==
  /\ RecordWellFormed
  /\ (Parsed /\ NamePortionWithin(pLine, {"/"} \cup WsChars))
       => pResult = Null

\* C4 as amended: the same record properties; a line whose name portion
\* consists only of '/' characters is rejected.
C4_RecordAndSlashOnlyName ==
  /\ RecordWellFormed
  /\ (Parsed /\ NamePortionWithin(pLine, {"/"}))
       => pResult = Null

\* a record with '/' stripped from the name has been returned, and a line
\* whose name is "//" is one of the lines
C4_Witness ==
  /\ pLine = <<"/", "a", "/", " ", "a", " ", "1">>
  /\ pResult = [isNull |-> FALSE,
                fileName |-> <<"a">>,
                fileCid |-> <<"a">>,
                fileSize |-> 1]

(***************************************************************************)
(* Vocabulary of the classifier claims.                                    *)
(***************************************************************************)
Classified == cResult # NotRun

\* the record has a size field, whatever its value
HasSizeField(o) == "file_size" \in DOMAIN o

\* the record's replica count, 0 when absent
RecordReplicas(o) ==
  IF "reported_replica_count" \in DOMAIN o
  THEN o["reported_replica_count"] ELSE 0

\* the record's expiry height, 0 when absent
RecordExpiry(o) == IF "expired_at" \in DOMAIN o THEN o["expired_at"] ELSE 0

\* the status the expiry/replica rules give
RuleStatus(o, h) ==
  IF h >= RecordExpiry(o) THEN "Expired"
  ELSE IF RecordReplicas(o) > 0 THEN "Success"
  ELSE "Pending"

(***************************************************************************)
(* C5 as claimed: the status is NotFound (with 0 replicas and the size     *)
(* "Unknown") if and only if the record has no size field; a record with a *)
(* size field, whatever its value, gets the status of the expiry/replica   *)
(* rules and displays its on-chain size.                                   *)
(***************************************************************************)
C5_NotFoundIffNoSizeField ==
  Classified =>
    /\ (cResult.fileOnchainStatus = "NotFound") <=> ~HasSizeField(cJson)
    /\ ~HasSizeField(cJson) =>
         /\ cResult.fileReplicas = 0
         /\ cResult.responseFileSize = [str |-> "Unknown"]
    /\ HasSizeField(cJson) =>
         /\ cResult.fileOnchainStatus = RuleStatus(cJson, cHeight)
         /\ cResult.responseFileSize = [num |-> cJson["file_size"]]

ReportGenerated == pc = "exited" /\ connection = "released"

\* the lines of kind k of an output, in order
Rows(out, k) == SelectSeq(out, LAMBDA e : e.kind = k)

\* the output holds the fixed text t
Has(out, t) == \E j \in 1..Len(out) : out[j] = [kind |-> t]

\* the two outputs of a report: the file written and the console
Outputs == {report.file, report.console}

\* the SkippedLines that carry parsedData
WithParsedData == SelectSeq(skippedLines, LAMBDA e : "parsedData" \in DOMAIN e)

\* the line numbers of the SkippedLines
SkippedNumbers == {skippedLines[k].lineNumber : k \in 1..Len(skippedLines)}

(***************************************************************************)
(* C11 as claimed: when releasing the connection fails after the loop, the *)
(* report is still emitted and the process exits with code 0.              *)
(***************************************************************************)
C11_ReleaseFailureNonFatal ==
  (pc = "exited" /\ connection = "releaseFailed") =>
    (report # NoReport /\ exitCode = 0)

(***************************************************************************)
(* C12 as claimed: in every run that reaches report generation, every      *)
(* SkippedLine is listed on the console with its line number and reason.   *)
(***************************************************************************)
C12_EverySkippedLineListed ==
  ReportGenerated =>
    \A k \in 1..Len(skippedLines) :
      \E j \in 1..Len(report.console) :
        report.console[j] = [kind |-> "skipped",
                             lineNumber |-> skippedLines[k].lineNumber,
                             reason |-> skippedLines[k].reason]

(***************************************************************************)
(* C13: a line the parser rejects gets a SkippedLine with the reason       *)
(* "Incorrect format" and no parsedData, and no query is sent for it; a    *)
(* line whose query failed gets a SkippedLine with its parsedData; an      *)
(* output that shows TABLE 3 shows it after a ==== line with exactly one   *)
(* row per SkippedLine that has parsedData, at least one; an output with   *)
(* all tables shows TABLE 3 exactly when such a SkippedLine exists.        *)
(***************************************************************************)
C13_SkippedKindsAndTable3 ==
  /\ \A n \in 1..i :
       parseLine(lines[n]) = Null => (n \in SkippedNumbers /\ n \notin queried)
  /\ \A k \in 1..Len(skippedLines) :
       LET e == skippedLines[k] IN
       IF parseLine(lines[e.lineNumber]) = Null
       THEN /\ e.reason = <<"Incorrect format">>
            /\ "parsedData" \notin DOMAIN e
            /\ e.lineNumber \notin queried
       ELSE /\ e.lineNumber \in queried
            /\ "parsedData" \in DOMAIN e
            /\ e.parsedData = parseLine(lines[e.lineNumber])
            /\ e.reason # <<"Incorrect format">>
  /\ ReportGenerated =>
       \A out \in Outputs :
         /\ Has(out, "TABLE3 HEADER") =>
              /\ WithParsedData # <<>>
              /\ \A j \in 1..Len(out) :
                   out[j] = [kind |-> "TABLE3 HEADER"] =>
                     (j > 1 /\ out[j - 1] = [kind |-> "===="])
         /\ ~Has(out, "TABLE3 HEADER") => Rows(out, "row3") = <<>>
         /\ Has(out, "TABLE3 HEADER") =>
              Rows(out, "row3") =
                [k \in 1..Len(WithParsedData) |->
                   [kind |-> "row3",
                    fileName |-> WithParsedData[k].parsedData.fileName,
                    fileCid |-> WithParsedData[k].parsedData.fileCid,
                    fileSize |-> WithParsedData[k].parsedData.fileSize,
                    reason |-> WithParsedData[k].reason]]
         /\ Has(out, "TABLE1 HEADER") =>
              (Has(out, "TABLE3 HEADER") <=> WithParsedData # <<>>)

\* a report written to a file for a rejected line and a line whose query
\* failed: TABLE 3 has the one row of the second
C13_Witness ==
  /\ ReportGenerated
  /\ report.written
  /\ Len(skippedLines) = 2
  /\ "parsedData" \notin DOMAIN skippedLines[1]
  /\ "parsedData" \in DOMAIN skippedLines[2]
  /\ Len(Rows(report.file, "row3")) = 1
  /\ queried = {2}

(***************************************************************************)
(* Vocabulary of the TABLE 2 claims.                                       *)
(***************************************************************************)
\* the ResultItems that need attention under the threshold m
NeedsAttention(m) ==
  SelectSeq(results,
            LAMBDA r : r.fileOnchainStatus # "Success" \/ r.fileReplicas < m)

\* name and identifier of every entry of a sequence of items or rows
NameAndCid(s) == [k \in 1..Len(s) |-> <<s[k].fileName, s[k].fileCid>>]

\* the output shows TABLE 2: with its header, or as bare data rows
Table2Shown(out) == Has(out, "TABLE2 HEADER") \/ Rows(out, "row2") # <<>>

(***************************************************************************)
(* C14: the rows of TABLE 2, wherever it is shown, are exactly the         *)
(* ResultItems whose status is not Success or whose replica count is below *)
(* minReplicasCount: a Success item with enough replicas never appears, a  *)
(* NotFound, Pending or Expired item always does.                          *)
(***************************************************************************)
C14_Table2Filter ==
  ReportGenerated =>
    /\ \A out \in Outputs :
         Table2Shown(out) =>
           /\ NameAndCid(Rows(out, "row2"))
                = NameAndCid(NeedsAttention(minReplicasCount))
           /\ \A k \in 1..Len(results) :
                /\ (results[k].fileOnchainStatus = "Success"
                      /\ results[k].fileReplicas >= minReplicasCount)
                     => \A j \in 1..Len(out) :
                          out[j].kind = "row2" =>
                            <<out[j].fileName, out[j].fileCid>>
                              # <<results[k].fileName, results[k].fileCid>>
                           \/ \E h \in 1..Len(results) :
                                /\ h # k
                                /\ results[h].fileName = results[k].fileName
                                /\ results[h].fileCid = results[k].fileCid
                /\ results[k].fileOnchainStatus # "Success"
                     => \E j \in 1..Len(out) :
                          /\ out[j].kind = "row2"
                          /\ out[j].fileName = results[k].fileName
                          /\ out[j].fileCid = results[k].fileCid
    /\ ~saveLog => Table2Shown(report.console)
    /\ (report.written /\ saveLogMode = "default") => Table2Shown(report.file)

\* with the threshold 3, a Success item with 2 replicas is the one row of
\* TABLE 2
C14_Witness ==
  /\ ReportGenerated
  /\ minReplicasCount = 3
  /\ Len(results) = 1
  /\ results[1].fileOnchainStatus = "Success"
  /\ results[1].fileReplicas = 2
  /\ Len(Rows(report.console, "row2")) = 1

\* with the threshold 2, the same item is not in TABLE 2
C14_WitnessEnoughReplicas ==
  /\ ReportGenerated
  /\ minReplicasCount = 2
  /\ Len(results) = 1
  /\ results[1].fileOnchainStatus = "Success"
  /\ results[1].fileReplicas = 2
  /\ Has(report.console, "TABLE2 HEADER")
  /\ Rows(report.console, "row2") = <<>>

(***************************************************************************)
(* C15 as claimed: for every --min-replicas-count that is an integer >= 0, *)
(* 0 included, the threshold is the configured value; 3 is the threshold   *)
(* when the option is not given.                                           *)
(***************************************************************************)
C15_ThresholdIsConfiguredValue ==
  (pc = "configured") =>
    minReplicasCount =
      (IF argv.minReplicasCount.given
       THEN DecimalValue(argv.minReplicasCount.value, 0)
       ELSE 3)

(***************************************************************************)
(* C16: with saveLogMode table2, a report whose TABLE 2 has no row writes  *)
(* no file, says so on the console and ends without error; a file that is  *)
(* written holds the data rows of TABLE 2 and nothing else.                *)
(***************************************************************************)
C16_Table2ModeFile ==
  (ReportGenerated /\ saveLog /\ saveLogMode = "table2") =>
    IF NeedsAttention(minReplicasCount) = <<>>
    THEN /\ ~report.written
         /\ report.file = <<>>
         /\ Has(report.console, "TABLE2 is empty, no log file generated")
         /\ ~Has(report.console, "Error in outputResults")
         /\ exitCode = 0
    ELSE report.written =>
           /\ \A j \in 1..Len(report.file) : report.file[j].kind = "row2"
           /\ NameAndCid(report.file)
                = NameAndCid(NeedsAttention(minReplicasCount))

\* table2 mode: a file with the one row of a NotFound item, for two results
C16_Witness ==
  /\ ReportGenerated
  /\ saveLogMode = "table2"
  /\ report.written
  /\ Len(results) = 2
  /\ Len(report.file) = 1
  /\ report.file[1].kind = "row2"

\* table2 mode: no file for a run whose only result needs no attention
C16_WitnessEmpty ==
  /\ ReportGenerated
  /\ saveLogMode = "table2"
  /\ Len(results) = 1
  /\ ~report.written
  /\ Has(report.console, "TABLE2 is empty, no log file generated")

(***************************************************************************)
(* Vocabulary of the option claims.                                        *)
(***************************************************************************)
Configured == pc = "configured"

\* the boolean a --save-log argument spells, in either case
BooleanValue(v) == v \in {"true", "TRUE", "True"}

\* the precedence of the claim; outCounts tells whether --out is supplied
SaveByPrecedence(outCounts) ==
  IF argv.saveLogMode.given THEN TRUE
  ELSE IF outCounts THEN TRUE
  ELSE IF argv.saveLog.given THEN BooleanValue(argv.saveLog.value)
  ELSE FALSE

C18_EmptyLineSkippedSilently ==
  /\ \A k \in 1..Len(skippedLines) : Trim(skippedLines[k].line) # <<>>
  /\ \A j \in 1..Len(report.console) :
       report.console[j].kind = "skipped" =>
         Trim(lines[report.console[j].lineNumber]) # <<>>

(***************************************************************************)
(* C19: the height is fetched at most once, on an open connection and      *)
(* before any query is sent; once initialization has passed it was fetched *)
(* exactly once, and every classification of the run was made with it.     *)
(***************************************************************************)
C19_HeightFetchedOnce ==
  /\ headerFetches <= 1
  /\ headerFetches = 1 <=> InitPassed
  /\ headerFetches = 1 => connection # "none"
  /\ (queried # {} \/ inflight # <<>> \/ produced # <<>>) =>
       (headerFetches = 1 /\ connection # "none")
  /\ heightsUsed \subseteq {currentBlockNumber}
  /\ results # <<>> => heightsUsed = {currentBlockNumber}
  /\ (pc = "exited" /\ exitCode = 0) => headerFetches = 1

\* two lines classified after retries, with the one height fetched
C19_Witness ==
  /\ pc = "exited"
  /\ Len(results) = 2
  /\ delay = initialDelay * factor * factor
  /\ headerFetches = 1
  /\ heightsUsed = {5}

(***************************************************************************)
(* Vocabulary of C20.                                                       *)
(***************************************************************************)
\* the input line of the k-th ResultItem
LineOfResult(k) == PushedOnto("results")[k].lineNumber

\* the size the input line n claims
ClaimedSize(n) == DecimalValue(TrailingDigits(Trim(lines[n])), 0)

\* f maps 1..n into 1..m in increasing order
Increasing(f, n) == \A a, b \in 1..n : a < b => f[a] < f[b]

(***************************************************************************)
(* C20: wherever TABLE 1 is shown its rows are the ResultItems, one row    *)
(* each, in increasing input line number; wherever TABLE 2 is shown its    *)
(* rows are a subsequence of them in the same order, each with the size    *)
(* its own input line claims.                                              *)
(***************************************************************************)
C20_RowsInProcessingOrder ==
  /\ \A k \in 1..Len(results) :
       /\ (k > 1 => LineOfResult(k - 1) < LineOfResult(k))
       /\ results[k].fileName = parseLine(lines[LineOfResult(k)]).fileName
       /\ results[k].fileCid = parseLine(lines[LineOfResult(k)]).fileCid
  /\ ReportGenerated =>
       \A out \in Outputs :
         /\ Has(out, "TABLE1 HEADER") =>
              Rows(out, "row1") =
                [k \in 1..Len(results) |->
                   [kind |-> "row1",
                    fileName |-> results[k].fileName,
                    fileCid |-> results[k].fileCid,
                    fileSize |-> results[k].fileSize,
                    fileOnchainStatus |-> results[k].fileOnchainStatus,
                    fileReplicas |-> results[k].fileReplicas]]
         /\ ~Has(out, "TABLE1 HEADER") => Rows(out, "row1") = <<>>
         /\ LET rows2 == Rows(out, "row2") IN
            \E f \in [1..Len(rows2) -> 1..Len(results)] :
              /\ Increasing(f, Len(rows2))
              /\ \A k \in 1..Len(rows2) :
                   /\ rows2[k].fileName = results[f[k]].fileName
                   /\ rows2[k].fileCid = results[f[k]].fileCid
                   /\ All(rows2[k].inputFileSize, Digits)
                   /\ DecimalValue(rows2[k].inputFileSize, 0)
                        = ClaimedSize(LineOfResult(f[k]))

\* two ResultItems; the second, got after two retries, is the one row of
\* TABLE 2, with the size 23 its line claims
C20_Witness ==
  /\ ReportGenerated
  /\ report.written
  /\ saveLogMode = "default"
  /\ Len(results) = 2
  /\ Len(skippedLines) = 0
  /\ delay = initialDelay * factor * factor
  /\ Len(Rows(report.file, "row1")) = 2
  /\ Len(Rows(report.file, "row2")) = 1
  /\ Rows(report.file, "row2")[1].fileName = results[2].fileName
  /\ Rows(report.file, "row2")[1].inputFileSize = <<"2", "3">>

(***************************************************************************)
(* Vocabulary of C21.                                                       *)
(***************************************************************************)
Waits(log) == SelectSeq(log, LAMBDA e : e.kind = "wait")

\* b to the power n
RECURSIVE Power(_, _)
Power(b, n) == IF n = 0 THEN 1 ELSE b * Power(b, n - 1)

(***************************************************************************)
(* C21: the wait after the k-th failed attempt lasts 1000 * 2^(k-1) ms     *)
(* (1 s, then 2 s); attempts and waits alternate, starting with an         *)
(* attempt, so that exactly one wait separates two consecutive attempts;   *)
(* no wait follows a successful attempt or the last failed attempt.        *)
(***************************************************************************)
C21_ExponentialBackoff ==
  /\ \A k \in 1..Len(Waits(attemptLog)) :
       Waits(attemptLog)[k].ms = 1000 * Power(2, k - 1)
  /\ Len(Waits(attemptLog)) <= 2
  /\ \A j \in 1..Len(attemptLog) :
       /\ (j % 2 = 1) => attemptLog[j].kind \in {"ok", "fail"}
       /\ (j % 2 = 0) =>
            /\ attemptLog[j].kind = "wait"
            /\ attemptLog[j - 1].kind = "fail"
            /\ Len(Fails(SubSeq(attemptLog, 1, j))) < maxRetries
  \* a wait is running only after a failed attempt that is not the last
  /\ (pc = "backoff") =>
       /\ attemptLog # <<>>
       /\ Last(attemptLog).kind = "fail"
       /\ Len(Fails(attemptLog)) < maxRetries
       /\ delay = 1000 * Power(2, Len(Fails(attemptLog)) - 1)
  \* an attempt is running only at the start or after a wait
  /\ (pc = "query") =>
       (attemptLog = <<>> \/ Last(attemptLog).kind = "wait")
  \* after a success or the last failure the loop goes on without a wait
  /\ (attemptLog # <<>> /\ Last(attemptLog).kind = "ok") => pc = "loop"
  /\ (attemptLog # <<>> /\ Last(attemptLog).kind = "fail"
        /\ Len(Fails(attemptLog)) = maxRetries) => pc = "loop"

\* three failed attempts separated by a wait of 1 s and a wait of 2 s
C21_Witness ==
  /\ pc = "loop"
  /\ Len(attemptLog) = 5
  /\ attemptLog[1].kind = "fail"
  /\ attemptLog[2] = [kind |-> "wait", ms |-> 1000]
  /\ attemptLog[3].kind = "fail"
  /\ attemptLog[4] = [kind |-> "wait", ms |-> 2000]
  /\ attemptLog[5].kind = "fail"

(***************************************************************************)
(* C22: when every awaited call returns or fails, the run terminates: no   *)
(* line gets more than maxRetries query attempts, and the process          *)
(* eventually exits, with every line given its outcome unless the          *)
(* initialization failed.                                                  *)
(***************************************************************************)
C22_RunTerminates ==
  <>(/\ pc = "exited"
     /\ InitPassed => i = Len(lines)
     /\ Len(Calls(attemptLog)) <= maxRetries
     /\ currentRetry <= maxRetries)

\* a run has exited after each of its two lines failed all its attempts
C22_Witness ==
  /\ pc = "exited"
  /\ Len(lines) = 2
  /\ Len(skippedLines) = 2
  /\ "parsedData" \in DOMAIN skippedLines[1]
  /\ "parsedData" \in DOMAIN skippedLines[2]
  /\ currentRetry = maxRetries

====
